---- MODULE Spec2Model ----
(***************************************************************************)
(* State-machine model of the DLinkSmartPlug accessory (the D-Link         *)
(* DSP-W215 Homebridge plugin): the serialized operation queue, the        *)
(* per-operation timeout, the login retry loop with backoff, the telnet    *)
(* token refresh (periodic and on demand) and the critical-failure         *)
(* handler.  The modelled code is the latest revision of the accessory     *)
(* class, src/README.md lines 497-953; src/index.js holds the earlier      *)
(* revisions of the same class.                                            *)
(*                                                                         *)
(* One action is one task of the Node.js event loop (a call from the host, *)
(* a timer, the settlement of a transport call) together with every        *)
(* promise continuation it runs before the loop takes the next task.       *)
(* Handlers are operators from a state record to a state record, named     *)
(* after the methods they model.                                           *)
(***************************************************************************)
EXTENDS Integers, Sequences, FiniteSets, TLC

\* ------------------------------------------------------------------ bounds
\* Number of getPowerState/setPowerState calls the host makes.
MaxOps == 2
\* maxRetries is drawn from 0..MaxRetriesCfg.
MaxRetriesCfg == 2
\* Number of direct calls of the public ensureConnected() (SpecApi only).
MaxDirect == 1

\* ------------------------------------------------------- program constants
BackoffCapMs == 30000
ExitChildBridge == 2
ExitHomebridge == 1

Ops == 1..MaxOps
Directs == 1..MaxDirect
\* Values of config.initialRetryDelayMs (any integer is accepted).
InitialDelays == {1000, 40000}

\* ------------------------------------------------------------------ errors
\* An error is [kind, code, msg]: code is err.code (424 or none = 0), msg the
\* class of err.message that _isTokenError can tell apart.
TokenMsgs == {"invalid device token", "invalid token", "token expired"}

Err(k, c, m) == [kind |-> k, code |-> c, msg |-> m]
NoErr == Err("none", 0, "")
CredCodeErr == Err("Credential", 424, "other")
CredMsgErr == Err("Credential", 0, "token expired")
NetErr == Err("Network", 0, "other")
\* Errors the transport's login() may reject with.
LoginErrors == {CredCodeErr, CredMsgErr, NetErr}
\* Errors the transport's state()/switch() may reject with.
IoErrors == {CredMsgErr, NetErr}
TelnetErr == Err("Telnet", 0, "other")
ShutdownErr == Err("Shutdown", 0, "other")
AbortedErr == Err("Aborted", 0, "other")
NoTokenErr == Err("NoToken", 0, "other")
NotTelnetErr == Err("NotTelnet", 0, "other")
TimeoutErr == Err("Timeout", 0, "other")
\* new Error(`Login failed after ${attempt} attempts: ${msg}`): no code, and the
\* message embeds the last login error's message.
SessionErr(e) == Err("Session", 0, e.msg)

IsTokenError(err) ==
    /\ err # NoErr
    /\ (err.code = 424 \/ err.msg \in TokenMsgs)

Min(a, b) == IF a < b THEN a ELSE b

\* ------------------------------------------------------------------- state
VARIABLES
    \* configuration, fixed by the constructor
    maxRetries, initialRetryDelayMs, useTelnetForToken,
    forceRestartOnFailure, runningAsChildBridge,
    \* fields of the accessory
    clientId,               \* identity of this.client (clients are numbered)
    clientPin,              \* pin held by this.client
    clientLoggedIn,         \* a login() succeeded on this.client
    clientClosed,           \* close() was called on this.client
    shutdownRequested,
    loginPromise,           \* "null" | "pending" | "stale" (settled, still held)
    tokenUpdateInProgress,
    tokenUpdateInterval,    \* the interval timer is set
    \* the login loop (locals of the async function in ensureConnected)
    lpc,                    \* "idle" | "login" | "telnet" | "backoff"
    attempt, delay, lastErr,
    loginClient,            \* client the pending login() was called on
    activeLogins,           \* login loops that have not returned yet
    loginSeqs,              \* login loops started so far
    loginWaiters,           \* who awaits loginPromise, in the order of the awaits
    seqLog,                 \* events of the login loop (see State)
    \* the periodic refresh callback
    ppc,                    \* "idle" | "telnet"
    \* operations
    nOps,                   \* operations submitted so far
    opPc,                   \* position of the operation's body
    opPred,                 \* the operation whose promise this one is chained on
    opSettled,              \* "pending" | "fulfilled" | "rejected": promise P_i
    opQueueTail,            \* this._opQueue: 0 = the initial resolved promise
    responded, timer,       \* the closure's flag and timeout handle
    responses,              \* values the callback was called with, in order
    ioLog,                  \* state()/switch() calls made, in order
    \* escalation
    policyLog,              \* reasons _handleCriticalFailure was called with
    exits,                  \* exit codes scheduled (process.exit timers), in order
    \* direct callers of ensureConnected()
    dPc, dJoined, dRes,
    \* direct callers of refreshTokenAndReconnect()
    rPc,                    \* "none" | "rwait" | "rtelnet" | "ec2" | "done"
    rRes

cfgVars == <<maxRetries, initialRetryDelayMs, useTelnetForToken,
             forceRestartOnFailure, runningAsChildBridge>>
vars == <<maxRetries, initialRetryDelayMs, useTelnetForToken,
          forceRestartOnFailure, runningAsChildBridge,
          clientId, clientPin, clientLoggedIn, clientClosed, shutdownRequested,
          loginPromise, tokenUpdateInProgress, tokenUpdateInterval,
          lpc, attempt, delay, lastErr, loginClient, activeLogins, loginSeqs,
          loginWaiters, seqLog, ppc,
          nOps, opPc, opPred, opSettled, opQueueTail, responded, timer,
          responses, ioLog, policyLog, exits, dPc, dJoined, dRes,
          rPc, rRes>>

\* The mutable state as one record, so that handlers compose.  seqLog observes
\* one login loop: the loop in progress, or the loop that ended in the latest
\* step; a handler that starts while no loop runs starts with an empty log.
State ==
    [clientId |-> clientId, clientPin |-> clientPin,
     clientLoggedIn |-> clientLoggedIn, clientClosed |-> clientClosed,
     shutdownRequested |-> shutdownRequested, loginPromise |-> loginPromise,
     tokenUpdateInProgress |-> tokenUpdateInProgress,
     tokenUpdateInterval |-> tokenUpdateInterval,
     lpc |-> lpc, attempt |-> attempt, delay |-> delay, lastErr |-> lastErr,
     loginClient |-> loginClient, activeLogins |-> activeLogins,
     loginSeqs |-> loginSeqs, loginWaiters |-> loginWaiters,
     seqLog |-> IF lpc = "idle" THEN <<>> ELSE seqLog,
     ppc |-> ppc, nOps |-> nOps, opPc |-> opPc,
     opPred |-> opPred, opSettled |-> opSettled, opQueueTail |-> opQueueTail,
     responded |-> responded, timer |-> timer, responses |-> responses,
     ioLog |-> ioLog, policyLog |-> policyLog, exits |-> exits,
     dPc |-> dPc, dJoined |-> dJoined, dRes |-> dRes,
     rPc |-> rPc, rRes |-> rRes]

Becomes(s) ==
    \E t \in {s} :
        /\ clientId' = t.clientId
        /\ clientPin' = t.clientPin
        /\ clientLoggedIn' = t.clientLoggedIn
        /\ clientClosed' = t.clientClosed
        /\ shutdownRequested' = t.shutdownRequested
        /\ loginPromise' = t.loginPromise
        /\ tokenUpdateInProgress' = t.tokenUpdateInProgress
        /\ tokenUpdateInterval' = t.tokenUpdateInterval
        /\ lpc' = t.lpc
        /\ attempt' = t.attempt
        /\ delay' = t.delay
        /\ lastErr' = t.lastErr
        /\ loginClient' = t.loginClient
        /\ activeLogins' = t.activeLogins
        /\ loginSeqs' = t.loginSeqs
        /\ loginWaiters' = t.loginWaiters
        /\ seqLog' = t.seqLog
        /\ ppc' = t.ppc
        /\ nOps' = t.nOps
        /\ opPc' = t.opPc
        /\ opPred' = t.opPred
        /\ opSettled' = t.opSettled
        /\ opQueueTail' = t.opQueueTail
        /\ responded' = t.responded
        /\ timer' = t.timer
        /\ responses' = t.responses
        /\ ioLog' = t.ioLog
        /\ policyLog' = t.policyLog
        /\ exits' = t.exits
        /\ dPc' = t.dPc
        /\ dJoined' = t.dJoined
        /\ dRes' = t.dRes
        /\ rPc' = t.rPc
        /\ rRes' = t.rRes
        /\ UNCHANGED cfgVars

\* ------------------------------------------------------------- small helpers
OkRes == Err("ok", 0, "")
Ev(e, w, ms) == [ev |-> e, what |-> w, ms |-> ms]

\* `await this.loginPromise` / `return this.loginPromise`: the caller's
\* reaction is registered on the promise behind the earlier ones.
Waiter(k, n) == [kind |-> k, id |-> n]
Await(s, k, n) == [s EXCEPT !.loginWaiters = Append(@, Waiter(k, n))]

SetMin(S) == CHOOSE x \in S : \A y \in S : x <= y

\* clearTimeout(timeoutHandle): a timer that already fired stays fired.
ClearTimeout(t) == IF t = "armed" THEN "cleared" ELSE t

\* _safeCallback(callback, err, val): the host's callback is called once more.
SafeCallback(s, i, val) == [s EXCEPT !.responses[i] = Append(@, val)]

\* A variant that forgets clearTimeout(timeoutHandle).
RespondKeepTimer(s, i, val) ==
    IF s.responded[i] THEN s
    ELSE SafeCallback([s EXCEPT !.responded[i] = TRUE], i, val)

\* if (!responded) { clearTimeout(timeoutHandle); responded = true; callback }
Respond(s, i, val) ==
    IF s.responded[i] THEN s
    ELSE SafeCallback([s EXCEPT !.timer[i] = ClearTimeout(@),
                                !.responded[i] = TRUE], i, val)

\* client.setPin(newToken) on the current client object.
SetPin(s) == [s EXCEPT !.clientPin = "fetched"]

\* this.client = new WebSocketClient(this.options): options.pin is the
\* configured pin, the accessory never writes it.
NewClient(s) ==
    [s EXCEPT !.clientId = @ + 1, !.clientPin = "configured",
              !.clientLoggedIn = FALSE, !.clientClosed = FALSE]

\* ------------------------------------------------------ critical failures
\* The checks in the opposite order.
HandleCriticalFailureForceFirst(s, reason) ==
    LET logged == [s EXCEPT !.policyLog = Append(@, reason)]
    IN  IF forceRestartOnFailure
        THEN [logged EXCEPT !.exits = Append(@, ExitHomebridge)]
        ELSE IF runningAsChildBridge
        THEN [logged EXCEPT !.exits = Append(@, ExitChildBridge)]
        ELSE logged

\* A handler that always restarts Homebridge.
HandleCriticalFailureAlways(s, reason) ==
    LET logged == [s EXCEPT !.policyLog = Append(@, reason)]
    IN  IF runningAsChildBridge
        THEN [logged EXCEPT !.exits = Append(@, ExitChildBridge)]
        ELSE [logged EXCEPT !.exits = Append(@, ExitHomebridge)]

\* _handleCriticalFailure(reason)
HandleCriticalFailure(s, reason) ==
    LET logged == [s EXCEPT !.policyLog = Append(@, reason)]
    IN  IF runningAsChildBridge
        THEN [logged EXCEPT !.exits = Append(@, ExitChildBridge)]
        ELSE IF forceRestartOnFailure
        THEN [logged EXCEPT !.exits = Append(@, ExitHomebridge)]
        ELSE logged

\* ------------------------------------------------------------ forward names
\* The operation bodies, the queue and the login loop resume one another.
RECURSIVE RunTurn(_, _)
RECURSIVE RunSuccessors(_, _, _)
RECURSIVE ResumeWaiters(_, _, _)
RECURSIVE LoginEnd(_, _)

\* The operations chained on promise P_i that have not had their turn.
Successors(s, i) == {j \in Ops : s.opPc[j] = "queued" /\ s.opPred[j] = i}

\* The operation's promise P_i is fulfilled: the turns chained on it run.
FinishBody(s, i) ==
    LET s1 == [s EXCEPT !.opPc[i] = "done", !.opSettled[i] = "fulfilled"]
    IN  RunSuccessors(s1, i, Successors(s1, i))

\* client.state() / client.switch(value) is called on this.client.
IoCall(s, i, pc) ==
    [s EXCEPT !.opPc[i] = pc,
              !.ioLog = Append(@, [op |-> i, client |-> s.clientId,
                                   loggedIn |-> s.clientLoggedIn])]

\* ------------------------------------------------------------- login loop
\* attempt++; await this.client.login()
LoginAttempt(s) ==
    [s EXCEPT !.attempt = @ + 1, !.lpc = "login",
              !.loginClient = s.clientId]

\* A loop condition that does not test the attempt counter.
LoopTopUnbounded(s) ==
    IF ~s.shutdownRequested
    THEN LoginAttempt(s)
    ELSE LoginEnd(s, AbortedErr)

\* while (attempt < this.maxRetries && !this.shutdownRequested), reached by
\* `continue` after an await; leaving the loop throws "Login aborted".
LoopTop(s) ==
    IF s.attempt < maxRetries /\ ~s.shutdownRequested
    THEN LoginAttempt(s)
    ELSE LoginEnd(s, AbortedErr)

\* this.loginPromise = (async () => {...})(): the loop runs to its first
\* await before the assignment.  A loop that ends before any await has set
\* loginPromise = null already, and the assignment then stores its promise.
StartLogin(s) ==
    LET s0 == [s EXCEPT !.loginSeqs = @ + 1, !.activeLogins = @ + 1,
                        !.seqLog = <<>>, !.attempt = 0,
                        !.delay = initialRetryDelayMs, !.lastErr = NoErr]
    IN  IF s0.attempt < maxRetries /\ ~s0.shutdownRequested
        THEN [st |-> [LoginAttempt(s0) EXCEPT !.loginPromise = "pending"],
              res |-> NoErr]
        ELSE [st |-> [s0 EXCEPT !.loginPromise = "stale", !.delay = 0,
                                !.activeLogins = @ - 1,
                                !.seqLog = <<Ev("end", "Aborted", 0)>>],
              res |-> AbortedErr]

\* A variant without the single-flight check.
EnsureConnectedNoSingleFlight(s) ==
    IF s.shutdownRequested THEN [st |-> s, res |-> ShutdownErr]
    ELSE StartLogin(s)

\* ensureConnected(): res = NoErr when the caller now awaits loginPromise,
\* else the error the call failed with before any await.
EnsureConnected(s) ==
    IF s.shutdownRequested THEN [st |-> s, res |-> ShutdownErr]
    ELSE IF s.loginPromise = "pending" THEN [st |-> s, res |-> NoErr]
    ELSE IF s.loginPromise = "stale" THEN [st |-> s, res |-> AbortedErr]
    ELSE StartLogin(s)

\* After a failed attempt (and a failed or skipped token recovery).
AfterLoginFail(s) ==
    IF s.attempt < maxRetries
    THEN [s EXCEPT !.lpc = "backoff",
                   !.seqLog = Append(@, Ev("wait", "", s.delay))]
    ELSE LoginEnd(s, SessionErr(s.lastErr))

\* A variant that waits out the backoff after a recovered token.
LoginTelnetSettledBackoff(s, r) ==
    LET s1 == [s EXCEPT !.seqLog = Append(@, Ev("fetch", r, 0))]
    IN  IF r = "token" THEN AfterLoginFail(SetPin(s1)) ELSE AfterLoginFail(s1)

\* getTokenFromTelnet() called by the login loop has settled with r.
LoginTelnetSettled(s, r) ==
    LET s1 == [s EXCEPT !.seqLog = Append(@, Ev("fetch", r, 0))]
    IN  IF r = "token" THEN LoopTop(SetPin(s1)) ELSE AfterLoginFail(s1)

\* client.login() has settled with r (NoErr = resolved).
LoginSettled(s, r) ==
    IF r = NoErr
    THEN LoginEnd([s EXCEPT !.clientLoggedIn =
                                IF s.loginClient = s.clientId THEN TRUE ELSE @,
                            !.seqLog = Append(@, Ev("login", "ok", 0))], NoErr)
    ELSE LET s1 == [s EXCEPT !.lastErr = r,
                             !.seqLog = Append(@, Ev("login", r.kind, 0))]
         IN  IF IsTokenError(r) /\ useTelnetForToken
             THEN [s1 EXCEPT !.lpc = "telnet"]
             ELSE AfterLoginFail(s1)

\* The backoff timer fired: delay = Math.min(delay * 2, 30000); continue
BackoffElapsed(s) ==
    LoopTop([s EXCEPT !.delay = Min(s.delay * 2, BackoffCapMs)])

\* ------------------------------------------------------- operation bodies
\* catch (retryErr) of the refresh-and-retry block of getPowerState /
\* setPowerState, then the body returns.
RetryCatch(s, i, retryErr) == FinishBody(Respond(s, i, retryErr), i)

\* A catch block that rethrows without _handleCriticalFailure.
RefreshFailQuiet(s, i, err) ==
    RetryCatch([s EXCEPT !.tokenUpdateInProgress = FALSE], i, err)

\* refreshTokenAndReconnect() failed inside its try block:
\* catch (err) { _handleCriticalFailure(err); throw err } finally { flag = false }
RefreshFail(s, i, err) ==
    RetryCatch([HandleCriticalFailure(s, err)
                    EXCEPT !.tokenUpdateInProgress = FALSE], i, err)

\* refreshTokenAndReconnect() past its wait loop:
\* tokenUpdateInProgress = true; await this.client.getTokenFromTelnet()
RefreshFetch(s, i) ==
    [s EXCEPT !.tokenUpdateInProgress = TRUE, !.opPc[i] = "rtelnet"]

\* A refresh that does not test useTelnetForToken.
RefreshTokenAndReconnectUnguarded(s, i) ==
    IF s.tokenUpdateInProgress THEN [s EXCEPT !.opPc[i] = "rwait"]
    ELSE RefreshFetch(s, i)

\* refreshTokenAndReconnect(), up to its first await.
RefreshTokenAndReconnect(s, i) ==
    IF ~useTelnetForToken THEN RetryCatch(s, i, NotTelnetErr)
    ELSE IF s.tokenUpdateInProgress THEN [s EXCEPT !.opPc[i] = "rwait"]
    ELSE RefreshFetch(s, i)

\* The 200 ms timer of the wait loop fired.
RefreshPollElapsed(s, i) ==
    IF s.tokenUpdateInProgress THEN s ELSE RefreshFetch(s, i)

\* await this.ensureConnected() inside refreshTokenAndReconnect has settled.
RefreshLoginSettled(s, i, res) ==
    IF res = NoErr
    THEN IoCall([s EXCEPT !.tokenUpdateInProgress = FALSE], i, "io2")
    ELSE RefreshFail(s, i, res)

\* A refresh that retries on the new client without logging in on it.
RefreshTelnetSettledNoLogin(s, i, r) ==
    IF r = "token"
    THEN IoCall([NewClient(SetPin(s)) EXCEPT !.tokenUpdateInProgress = FALSE],
                i, "io2")
    ELSE IF r = "none" THEN RefreshFail(s, i, NoTokenErr)
    ELSE RefreshFail(s, i, TelnetErr)

\* getTokenFromTelnet() called by refreshTokenAndReconnect has settled.
RefreshTelnetSettled(s, i, r) ==
    IF r = "token"
    THEN LET r1 == EnsureConnected(NewClient(SetPin(s)))
         IN  IF r1.res = NoErr
             THEN [Await(r1.st, "op", i) EXCEPT !.opPc[i] = "ec2"]
             ELSE RefreshFail(r1.st, i, r1.res)
    ELSE IF r = "none" THEN RefreshFail(s, i, NoTokenErr)
    ELSE RefreshFail(s, i, TelnetErr)

\* catch (error) of the operation body.
OpCatch(s, i, error) ==
    IF IsTokenError(error)
    THEN IF ~s.responded[i] THEN RefreshTokenAndReconnect(s, i)
         ELSE FinishBody(s, i)
    ELSE IF ~s.responded[i]
         THEN LET s1 == [s EXCEPT !.timer[i] = ClearTimeout(@),
                                  !.responded[i] = TRUE]
                  s2 == IF forceRestartOnFailure
                        THEN HandleCriticalFailure(s1, error) ELSE s1
              IN  FinishBody(SafeCallback(s2, i, error), i)
         ELSE FinishBody(s, i)

\* await this.ensureConnected() at the top of the body has settled.
BodyLoginSettled(s, i, res) ==
    IF res = NoErr THEN IoCall(s, i, "io1") ELSE OpCatch(s, i, res)

\* The function passed to _enqueueOperation, up to its first await.
OpBody(s, i) ==
    LET r == EnsureConnected(s)
    IN  IF r.res = NoErr THEN [Await(r.st, "op", i) EXCEPT !.opPc[i] = "ec1"]
        ELSE OpCatch(r.st, i, r.res)

\* client.state() / client.switch(value) has settled with r.
IoSettled(s, i, r) ==
    IF s.opPc[i] = "io1"
    THEN IF r = NoErr THEN FinishBody(Respond(s, i, OkRes), i)
         ELSE OpCatch(s, i, r)
    ELSE IF r = NoErr THEN FinishBody(Respond(s, i, OkRes), i)
         ELSE RetryCatch(s, i, r)

\* ------------------------------------------------------------------ queue
\* The chained promise rejects: .catch(queueErr => { clearTimeout(...);
\* if (!responded) {...} }) of the operation runs, and P_i is rejected.
QueueReject(s, i) ==
    LET s1 == Respond([s EXCEPT !.timer[i] = ClearTimeout(@)], i, ShutdownErr)
        s2 == [s1 EXCEPT !.opPc[i] = "rejected", !.opSettled[i] = "rejected"]
    IN  RunSuccessors(s2, i, Successors(s2, i))

PromiseState(s, i) == IF i = 0 THEN "fulfilled" ELSE s.opSettled[i]

\* A queue that drops an operation whose callback was already called.
RunTurnSkipAnswered(s, i) ==
    IF PromiseState(s, s.opPred[i]) = "rejected" THEN QueueReject(s, i)
    ELSE IF s.shutdownRequested THEN QueueReject(s, i)
    ELSE IF s.responded[i] THEN FinishBody(s, i)
    ELSE OpBody(s, i)

\* The turn of operation i: its predecessor's promise has settled.
\* .then(() => { if (shutdownRequested) return Promise.reject(...); return fn() })
\* has no rejection handler, so a rejected predecessor rejects P_i unrun.
RunTurn(s, i) ==
    IF PromiseState(s, s.opPred[i]) = "rejected" THEN QueueReject(s, i)
    ELSE IF s.shutdownRequested THEN QueueReject(s, i)
    ELSE OpBody(s, i)

RunSuccessors(s, i, W) ==
    IF W = {} THEN s
    ELSE LET j == SetMin(W) IN RunSuccessors(RunTurn(s, j), i, W \ {j})

\* A variant that starts the operation at once, on no predecessor.
EnqueueOperationUnchained(s, i) ==
    RunTurn([s EXCEPT !.opPred[i] = 0, !.opQueueTail = i,
                      !.opPc[i] = "queued"], i)

\* _enqueueOperation(fn): this._opQueue = this._opQueue.then(...).catch(...)
EnqueueOperation(s, i) ==
    LET s1 == [s EXCEPT !.opPred[i] = s.opQueueTail, !.opQueueTail = i,
                        !.opPc[i] = "queued"]
    IN  IF PromiseState(s1, s1.opPred[i]) = "pending" THEN s1
        ELSE RunTurn(s1, i)

\* The timeout callback without its call of the host's callback.
OperationTimeoutSilent(s, i) ==
    [s EXCEPT !.timer[i] = "fired", !.responded[i] = TRUE]

\* A timeout that also abandons the operation.
OperationTimeoutCancels(s, i) ==
    SafeCallback([s EXCEPT !.timer[i] = "fired", !.responded[i] = TRUE,
                           !.opPc[i] = "done"], i, TimeoutErr)

\* setTimeout(() => { responded = true; ...; _safeCallback(callback, err) })
OperationTimeout(s, i) ==
    SafeCallback([s EXCEPT !.timer[i] = "fired", !.responded[i] = TRUE],
                 i, TimeoutErr)

\* getPowerState(callback) and setPowerState(value, callback) are the same
\* code but for the transport method the body calls (state() or
\* switch(value)) and the value passed on success; the flag, the timeout timer
\* and the enqueued body are modelled once.
SubmitOperation(s) ==
    LET i == s.nOps + 1
    IN  EnqueueOperation([s EXCEPT !.nOps = i, !.responded[i] = FALSE,
                                   !.timer[i] = "armed"], i)

GetPowerState(s) == SubmitOperation(s)

SetPowerState(s) == SubmitOperation(s)

\* ------------------------------------------------- login waiters resumed
\* refreshTokenAndReconnect() called directly by caller d failed inside its
\* try block: _handleCriticalFailure(err), the flag cleared, err thrown.
DirectRefreshFail(s, d, err) ==
    [HandleCriticalFailure(s, err)
         EXCEPT !.tokenUpdateInProgress = FALSE,
                !.rPc[d] = "done", !.rRes[d] = err]

\* await this.ensureConnected() in a direct refreshTokenAndReconnect() settled.
DirectRefreshLoginSettled(s, d, res) ==
    IF res = NoErr
    THEN [s EXCEPT !.tokenUpdateInProgress = FALSE,
                   !.rPc[d] = "done", !.rRes[d] = OkRes]
    ELSE DirectRefreshFail(s, d, res)

\* await this.ensureConnected() of direct caller d has settled.
DirectLoginSettled(s, d, res) ==
    [s EXCEPT !.dPc[d] = "done",
              !.dRes[d] = IF res = NoErr THEN OkRes ELSE res]

\* The reaction of one waiter on the settled loginPromise.
ResumeWaiter(s, w, res) ==
    IF w.kind = "op"
    THEN IF s.opPc[w.id] = "ec1" THEN BodyLoginSettled(s, w.id, res)
         ELSE RefreshLoginSettled(s, w.id, res)
    ELSE IF w.kind = "refresh" THEN DirectRefreshLoginSettled(s, w.id, res)
    ELSE DirectLoginSettled(s, w.id, res)

\* The reactions run in the order the waiters began to await the promise.
ResumeWaiters(s, W, res) ==
    IF W = <<>> THEN s
    ELSE ResumeWaiters(ResumeWaiter(s, Head(W), res), Tail(W), res)

\* A loop end that leaves the rejected promise in loginPromise after a
\* terminal failure.
LoginEndKeepsPromise(s, res) ==
    LET s1 == [s EXCEPT !.loginPromise =
                            IF res.kind = "Session" THEN "stale" ELSE "null",
                        !.lpc = "idle",
                        !.attempt = 0, !.delay = 0, !.lastErr = NoErr,
                        !.loginClient = 0, !.activeLogins = @ - 1,
                        !.seqLog = Append(@, Ev("end",
                                     IF res = NoErr THEN "ok" ELSE res.kind, 0))]
        s2 == IF res.kind = "Session" THEN HandleCriticalFailure(s1, res)
              ELSE s1
    IN  ResumeWaiters([s2 EXCEPT !.loginWaiters = <<>>], s.loginWaiters, res)

\* The loop returns or throws: loginPromise = null, the terminal error goes to
\* _handleCriticalFailure, and everything awaiting the promise resumes, in the
\* order of the awaits; an await made from here on is on the next promise.
\* The loop's locals (attempt, delay, err) cease to exist.
LoginEnd(s, res) ==
    LET s1 == [s EXCEPT !.loginPromise = "null", !.lpc = "idle",
                        !.attempt = 0, !.delay = 0, !.lastErr = NoErr,
                        !.loginClient = 0, !.activeLogins = @ - 1,
                        !.seqLog = Append(@, Ev("end",
                                     IF res = NoErr THEN "ok" ELSE res.kind, 0))]
        s2 == IF res.kind = "Session" THEN HandleCriticalFailure(s1, res)
              ELSE s1
    IN  ResumeWaiters([s2 EXCEPT !.loginWaiters = <<>>], s.loginWaiters, res)

\* ------------------------------------------------------- periodic refresh
\* A callback that does not test tokenUpdateInProgress.
PeriodicTokenUpdateNoSkip(s) ==
    IF s.shutdownRequested THEN s
    ELSE [s EXCEPT !.tokenUpdateInProgress = TRUE, !.ppc = "telnet"]

\* The setInterval callback, up to its first await.
PeriodicTokenUpdate(s) ==
    IF s.shutdownRequested THEN s
    ELSE IF s.tokenUpdateInProgress THEN s
    ELSE [s EXCEPT !.tokenUpdateInProgress = TRUE, !.ppc = "telnet"]

\* getTokenFromTelnet() called by the periodic callback has settled.
PeriodicTelnetSettled(s, r) ==
    LET s1 == IF r = "token" THEN SetPin(s) ELSE s
    IN  [s1 EXCEPT !.tokenUpdateInProgress = FALSE, !.ppc = "idle"]

\* A shutdown that leaves the periodic timer running.
ShutdownKeepInterval(s) ==
    [s EXCEPT !.shutdownRequested = TRUE, !.clientClosed = TRUE]

\* shutdown()
Shutdown(s) ==
    [s EXCEPT !.shutdownRequested = TRUE, !.tokenUpdateInterval = FALSE,
              !.clientClosed = TRUE]

\* A direct call of the public method ensureConnected() by caller d.
DirectCall(s, d) ==
    LET r == EnsureConnected(s)
        s1 == [r.st EXCEPT !.dJoined[d] = (s.loginPromise = "pending"
                                           /\ ~s.shutdownRequested)]
    IN  IF r.res = NoErr THEN [Await(s1, "direct", d) EXCEPT !.dPc[d] = "wait"]
        ELSE [s1 EXCEPT !.dPc[d] = "done", !.dRes[d] = r.res]

\* A direct call of the public method refreshTokenAndReconnect() by caller d,
\* up to its first await.
DirectRefresh(s, d) ==
    IF ~useTelnetForToken
    THEN [s EXCEPT !.rPc[d] = "done", !.rRes[d] = NotTelnetErr]
    ELSE IF s.tokenUpdateInProgress THEN [s EXCEPT !.rPc[d] = "rwait"]
    ELSE [s EXCEPT !.tokenUpdateInProgress = TRUE, !.rPc[d] = "rtelnet"]

\* The 200 ms timer of the wait loop of a direct refresh fired.
DirectRefreshPollElapsed(s, d) ==
    IF s.tokenUpdateInProgress THEN s
    ELSE [s EXCEPT !.tokenUpdateInProgress = TRUE, !.rPc[d] = "rtelnet"]

\* getTokenFromTelnet() called by a direct refresh has settled.
DirectRefreshTelnetSettled(s, d, r) ==
    IF r = "token"
    THEN LET r1 == EnsureConnected(NewClient(SetPin(s)))
         IN  IF r1.res = NoErr
             THEN [Await(r1.st, "refresh", d) EXCEPT !.rPc[d] = "ec2"]
             ELSE DirectRefreshFail(r1.st, d, r1.res)
    ELSE IF r = "none" THEN DirectRefreshFail(s, d, NoTokenErr)
    ELSE DirectRefreshFail(s, d, TelnetErr)

\* ------------------------------------------------------------------- Init
\* The state after the constructor.
Init ==
    /\ maxRetries \in 0..MaxRetriesCfg
    /\ initialRetryDelayMs \in InitialDelays
    /\ useTelnetForToken \in BOOLEAN
    /\ forceRestartOnFailure \in BOOLEAN
    /\ runningAsChildBridge \in BOOLEAN
    /\ clientId = 1
    /\ clientPin = "configured"
    /\ clientLoggedIn = FALSE
    /\ clientClosed = FALSE
    /\ shutdownRequested = FALSE
    /\ loginPromise = "null"
    /\ tokenUpdateInProgress = FALSE
    /\ tokenUpdateInterval = useTelnetForToken
    /\ lpc = "idle"
    /\ attempt = 0
    /\ delay = 0
    /\ lastErr = NoErr
    /\ loginClient = 0
    /\ activeLogins = 0
    /\ loginSeqs = 0
    /\ seqLog = <<>>
    /\ ppc = "idle"
    /\ nOps = 0
    /\ opPc = [i \in Ops |-> "new"]
    /\ opPred = [i \in Ops |-> 0]
    /\ opSettled = [i \in Ops |-> "pending"]
    /\ opQueueTail = 0
    /\ responded = [i \in Ops |-> FALSE]
    /\ timer = [i \in Ops |-> "none"]
    /\ responses = [i \in Ops |-> <<>>]
    /\ ioLog = <<>>
    /\ policyLog = <<>>
    /\ exits = <<>>
    /\ dPc = [d \in Directs |-> "none"]
    /\ dJoined = [d \in Directs |-> FALSE]
    /\ dRes = [d \in Directs |-> NoErr]
    /\ loginWaiters = <<>>
    /\ rPc = [d \in Directs |-> "none"]
    /\ rRes = [d \in Directs |-> NoErr]

\* ---------------------------------------------------------------- actions
\* A scheduled process.exit ends the run; every prefix of a behaviour is a
\* behaviour, so the exit itself needs no action.  Host calls are bounded.

HostGet == nOps < MaxOps /\ Becomes(GetPowerState(State))

HostSet == nOps < MaxOps /\ Becomes(SetPowerState(State))

\* shutdown() may be called again: it closes the client that is current then.
HostShutdown ==
    /\ Becomes(Shutdown(State))

\* Timers that expire in any order.
TimerDueAnyOrder(i) == timer[i] = "armed"

\* Every operation arms its timer with the same this.operationTimeoutMs, so the
\* timers expire in the order they were armed: a timer is due only when no
\* timer armed before it is still armed.
TimerDue(i) ==
    /\ timer[i] = "armed"
    /\ \A j \in Ops : j < i => timer[j] # "armed"

TimeoutFires ==
    \E i \in Ops : TimerDue(i) /\ Becomes(OperationTimeout(State, i))

LoginSettles ==
    \E r \in {NoErr} \cup LoginErrors :
        lpc = "login" /\ Becomes(LoginSettled(State, r))

LoginTelnetSettles ==
    \E r \in {"token", "none", "error"} :
        lpc = "telnet" /\ Becomes(LoginTelnetSettled(State, r))

BackoffFires == lpc = "backoff" /\ Becomes(BackoffElapsed(State))

IoSettles ==
    \E i \in Ops, r \in {NoErr} \cup IoErrors :
        opPc[i] \in {"io1", "io2"} /\ Becomes(IoSettled(State, i, r))

RefreshPollFires ==
    \E i \in Ops :
        opPc[i] = "rwait" /\ Becomes(RefreshPollElapsed(State, i))

RefreshTelnetSettles ==
    \E i \in Ops, r \in {"token", "none", "error"} :
        opPc[i] = "rtelnet"
                /\ Becomes(RefreshTelnetSettled(State, i, r))

PeriodicFires ==
    tokenUpdateInterval /\ Becomes(PeriodicTokenUpdate(State))

PeriodicTelnetSettles ==
    \E r \in {"token", "none", "error"} :
        ppc = "telnet" /\ Becomes(PeriodicTelnetSettled(State, r))

\* Caller d has made no direct call yet, and every caller before it has.
DirectFree(d) ==
    /\ dPc[d] = "none" /\ rPc[d] = "none"
    /\ \A e \in Directs : e < d => (dPc[e] # "none" \/ rPc[e] # "none")

DirectEnsureConnected ==
    \E d \in Directs : DirectFree(d) /\ Becomes(DirectCall(State, d))

DirectRefreshTokenAndReconnect ==
    \E d \in Directs : DirectFree(d) /\ Becomes(DirectRefresh(State, d))

DirectRefreshPollFires ==
    \E d \in Directs :
        rPc[d] = "rwait" /\ Becomes(DirectRefreshPollElapsed(State, d))

DirectRefreshTelnetSettles ==
    \E d \in Directs, r \in {"token", "none", "error"} :
        rPc[d] = "rtelnet" /\ Becomes(DirectRefreshTelnetSettled(State, d, r))

Next ==
    \/ HostGet
    \/ HostSet
    \/ HostShutdown
    \/ TimeoutFires
    \/ LoginSettles
    \/ LoginTelnetSettles
    \/ BackoffFires
    \/ IoSettles
    \/ RefreshPollFires
    \/ RefreshTelnetSettles
    \/ PeriodicFires
    \/ PeriodicTelnetSettles

Spec == Init /\ [][Next]_vars

\* The accessory driven through its public ensureConnected() and
\* refreshTokenAndReconnect() as well, in the configurations without an
\* escalation flag and with the default initial delay: the login loop reads
\* neither flag.
InitApi ==
    /\ Init
    /\ ~forceRestartOnFailure /\ ~runningAsChildBridge
    /\ initialRetryDelayMs = 1000

NextApi ==
    \/ Next
    \/ DirectEnsureConnected
    \/ DirectRefreshTokenAndReconnect
    \/ DirectRefreshPollFires
    \/ DirectRefreshTelnetSettles

SpecApi == InitApi /\ [][NextApi]_vars

\* The same accessory on a transport whose calls all settle and an event loop
\* whose timers all fire: every pending login(), getTokenFromTelnet() and
\* state()/switch() call settles, every backoff timer fires and the 200 ms
\* poll timer of refreshTokenAndReconnect() fires.  Nothing orders the poll
\* against the periodic callback: a poll that finds the flag set changes
\* nothing, so the poll is only weakly fair.
Fairness ==
    /\ WF_vars(LoginSettles)
    /\ WF_vars(LoginTelnetSettles)
    /\ WF_vars(BackoffFires)
    /\ WF_vars(IoSettles)
    /\ WF_vars(RefreshTelnetSettles)
    /\ WF_vars(PeriodicTelnetSettles)
    /\ WF_vars(RefreshPollFires)

\* Started in the configurations of InitApi: neither the login loop nor the
\* refresh reads an escalation flag.
SpecFair == InitApi /\ [][Next]_vars /\ Fairness

\* ================================================================== claims
Submitted(i) == i <= nOps
Settled(i) == opPc[i] \in {"done", "rejected"}
Logins(log) == SelectSeq(log, LAMBDA e : e.ev = "login")
Fetches(log) == SelectSeq(log, LAMBDA e : e.ev = "fetch")
Waits(log) == SelectSeq(log, LAMBDA e : e.ev = "wait")
Ended(log) == log # <<>> /\ log[Len(log)].ev = "end"
RECURSIVE Pow2(_)
Pow2(n) == IF n = 0 THEN 1 ELSE 2 * Pow2(n - 1)

\* C1: the callback of every submitted operation is called exactly once,
\* whatever the interleaving of its completion, its timeout timer, a queue
\* rejection and shutdown: never twice, and once as soon as the timeout
\* timer is no longer armed or the operation's turn has ended.
C1_ExactlyOneResponse ==
    \A i \in Ops :
        /\ Len(responses[i]) <= 1
        /\ ~Submitted(i) => responses[i] = <<>>
        /\ (Submitted(i) /\ (timer[i] # "armed" \/ Settled(i)))
               => Len(responses[i]) = 1

\* The operation completed and its timeout fired as well: one response.
C1_Witness ==
    \E i \in Ops :
        timer[i] = "fired" /\ opPc[i] = "done" /\ Len(ioLog) > 0
                           /\ Len(responses[i]) = 1

\* C2: state()/switch() calls are made in submission order and never overlap:
\* an operation's work starts only when every operation submitted before it
\* has settled.
C2_SerializedInOrder ==
    /\ \A i, j \in Ops :
           (i < j /\ opPc[j] \notin {"new", "queued"}) => Settled(i)
    /\ Cardinality({i \in Ops : opPc[i] \in {"io1", "io2"}}) <= 1
    /\ \A a, b \in 1..Len(ioLog) : a < b => ioLog[a].op <= ioLog[b].op

\* Operation 2 waited behind operation 1 and made its transport call after
\* operation 1 had made two (the call and the retry after a refresh).
C2_Witness ==
    /\ Len(ioLog) = 3
    /\ ioLog[1].op = 1 /\ ioLog[2].op = 1 /\ ioLog[3].op = 2
    /\ opPc[2] = "io1"

\* C3: an operation is answered no later than its deadline: when its timeout
\* timer has fired the caller has the TimeoutError, also when the operation
\* still waits in the queue or its transport call has not settled; a timer
\* that was cleared was cleared by an earlier answer.
C3_AnsweredByDeadline ==
    \A i \in Ops :
        /\ timer[i] = "fired" => responses[i] = <<TimeoutErr>>
        /\ timer[i] = "cleared" =>
               (Len(responses[i]) = 1 /\ responses[i][1] # TimeoutErr)

\* Operation 2 timed out in the queue behind operation 1, whose transport
\* call has not settled and which timed out too.
C3_Witness ==
    /\ opPc[1] = "io1" /\ timer[1] = "fired"
    /\ opPc[2] = "queued" /\ timer[2] = "fired"
    /\ responses[2] = <<TimeoutErr>>

\* What a call that joined a pending loginPromise gets when the loop ends:
\* the outcome the operation awaiting the same promise gets.
C4_SameOutcome ==
    \A d \in Directs :
        (dPc[d] = "wait" /\ dPc'[d] = "done")
            => \A i \in Ops :
                   /\ opPc[i] = "ec1" =>
                          (opPc'[i] = "io1" <=> dRes'[d] = OkRes)
                   /\ (/\ opPc[i] = "ec1" /\ ~responded[i]
                       /\ dRes'[d] # OkRes /\ ~IsTokenError(dRes'[d]))
                          => responses'[i] = <<dRes'[d]>>

\* C4: at most one login loop is in flight; an ensureConnected() call made
\* while loginPromise is pending and no shutdown was requested starts no loop
\* and no login() call of its own and settles with the outcome the operation
\* that started the loop gets; after shutdown() the call fails at once with
\* the shutdown error, and starts no loop either.
C4_SingleFlight ==
    /\ [](activeLogins <= 1)
    /\ [][/\ \A d \in Directs :
               (dPc[d] = "none" /\ dPc'[d] # "none" /\ loginPromise = "pending")
                   => /\ loginSeqs' = loginSeqs
                      /\ <<lpc, attempt, seqLog>>' = <<lpc, attempt, seqLog>>
                      /\ ~shutdownRequested => dPc'[d] = "wait"
                      /\ shutdownRequested =>
                             (dPc'[d] = "done" /\ dRes'[d] = ShutdownErr)
          /\ C4_SameOutcome
         ]_vars

\* C4 as stated: every call made while loginPromise is pending joins the
\* loop, whether or not shutdown was requested.
C4_JoinsAlways ==
    /\ [](activeLogins <= 1)
    /\ [][/\ \A d \in Directs :
               (dPc[d] = "none" /\ dPc'[d] # "none" /\ loginPromise = "pending")
                   => /\ loginSeqs' = loginSeqs
                      /\ dPc'[d] = "wait"
          /\ C4_SameOutcome
         ]_vars

\* A direct call joined the login loop started by operation 1 and both were
\* resumed by its success.
C4_Witness ==
    \E d \in Directs :
        /\ dJoined[d] /\ dPc[d] = "done" /\ dRes[d] = OkRes
        /\ opPc[1] = "io1" /\ loginSeqs = 1

\* C5: when operation 1's read or write succeeds and operation 2, submitted
\* back-to-back, gets its turn, no second login loop is started: one login
\* loop serves both.
C5_OneLoginForBackToBack ==
    [][(/\ opPc[1] = "io1" /\ opPc[2] = "queued"
        /\ loginSeqs = 1 /\ ~shutdownRequested
        /\ responses'[1] = <<OkRes>>)
           => loginSeqs' = 1]_vars

\* C6: a login loop of maxRetries = N >= 1 attempts that all fail with a
\* NetworkError makes N login() calls, waits N-1 delays, the k-th being
\* min(initialRetryDelayMs * 2^(k-1), 30000), and ends with the terminal
\* error.
C6_AllNetworkFailures ==
    (/\ Ended(seqLog)
     /\ maxRetries >= 1
     /\ ~shutdownRequested
     /\ \A k \in 1..Len(Logins(seqLog)) : Logins(seqLog)[k].what = "Network")
        => /\ Len(Logins(seqLog)) = maxRetries
           /\ Len(Waits(seqLog)) = maxRetries - 1
           /\ \A k \in 1..Len(Waits(seqLog)) :
                  Waits(seqLog)[k].ms =
                      Min(initialRetryDelayMs * Pow2(k - 1), BackoffCapMs)
           /\ seqLog[Len(seqLog)].what = "Session"

\* C7: a login loop whose first login() fails with a credential-class error,
\* whose telnet fetch returns a token and whose next login() succeeds makes one
\* fetch and two login() calls, waits no backoff, and succeeds.
C7_RecoveredLogin ==
    (/\ Len(seqLog) >= 2
     /\ seqLog[1] = Ev("login", "Credential", 0)
     /\ seqLog[2] = Ev("fetch", "token", 0)
     /\ Len(Logins(seqLog)) >= 2
     /\ Logins(seqLog)[2].what = "ok")
        => /\ Len(Logins(seqLog)) = 2
           /\ Len(Fetches(seqLog)) = 1
           /\ Waits(seqLog) = <<>>
           /\ seqLog[Len(seqLog)] = Ev("end", "ok", 0)
           /\ loginPromise = "null"

C7_Witness ==
    /\ seqLog = <<Ev("login", "Credential", 0), Ev("fetch", "token", 0),
                  Ev("login", "ok", 0), Ev("end", "ok", 0)>>
    /\ opPc[1] = "io1"

\* C8: what _handleCriticalFailure schedules depends on (runningAsChildBridge,
\* forceRestartOnFailure) only: child bridge -> exit 2 whatever the force
\* flag; no child bridge and force -> exit 1; neither -> no exit; and the two
\* codes differ.
C8_DecisionTable ==
    /\ runningAsChildBridge =>
           exits = [k \in 1..Len(policyLog) |-> 2]
    /\ (~runningAsChildBridge /\ forceRestartOnFailure) =>
           exits = [k \in 1..Len(policyLog) |-> 1]
    /\ (~runningAsChildBridge /\ ~forceRestartOnFailure) => exits = <<>>
    /\ ExitChildBridge # ExitHomebridge

\* The handler ran on a child bridge that also forces restarts.
C8_Witness ==
    /\ runningAsChildBridge /\ forceRestartOnFailure
    /\ policyLog # <<>> /\ exits[1] = ExitChildBridge

\* C9: with neither child bridge nor forceRestartOnFailure no exit is ever
\* scheduled, whatever login exhaustions, refresh failures, operation errors
\* and timeouts occur.
C9_NoExitWhenNotConfigured ==
    (~runningAsChildBridge /\ ~forceRestartOnFailure) => Len(exits) = 0

\* The login retries were exhausted and a refresh failed, an operation timed
\* out, and nothing is scheduled.
C9_Witness ==
    /\ ~runningAsChildBridge /\ ~forceRestartOnFailure
    /\ \E k \in 1..Len(policyLog) : policyLog[k].kind = "Session"
    /\ \E k \in 1..Len(policyLog) : policyLog[k].kind = "NoToken"
    /\ \E i \in Ops : timer[i] = "fired"
    /\ exits = <<>>

\* C10: an operation submitted after shutdown() is answered with the shutdown
\* error in the very step that submits it, without waiting for earlier
\* operations, and it makes no transport call.
C10_RejectedImmediately ==
    [][(shutdownRequested /\ nOps' = nOps + 1)
           => /\ responses'[nOps'] = <<ShutdownErr>>
              /\ ioLog' = ioLog
              /\ loginSeqs' = loginSeqs]_vars

\* A client.login() call is started in this step.
LoginCallStarted ==
    /\ lpc' = "login"
    /\ (lpc # "login" \/ attempt' # attempt \/ loginSeqs' # loginSeqs)

\* An out-of-band fetch is started in this step.
FetchStarted ==
    \/ lpc # "telnet" /\ lpc' = "telnet"
    \/ ppc # "telnet" /\ ppc' = "telnet"
    \/ \E i \in Ops : opPc[i] # "rtelnet" /\ opPc'[i] = "rtelnet"

\* C11: after the promise chain has rejected, the queue is not wedged: an
\* operation whose predecessor's promise is rejected still has its body run
\* when its turn comes, so it is not rejected by the queue.
C11_QueueNotWedged ==
    \A i \in Ops :
        (/\ Submitted(i) /\ opPred[i] # 0
         /\ opSettled[opPred[i]] = "rejected"
         /\ opPc[i] # "queued")
            => opPc[i] # "rejected"

\* C12: a refreshTokenAndReconnect() that found tokenUpdateInProgress set
\* and waited for the refresh in progress starts no out-of-band fetch of its
\* own.
C12_RefreshSingleFlight ==
    [][\A i \in Ops : opPc[i] = "rwait" => opPc'[i] # "rtelnet"]_vars

\* C13: when refreshTokenAndReconnect() succeeds (the operation goes on to its
\* retry), this.client is a new object, it holds the fetched token, and a
\* login has succeeded on it.
C13_RefreshedClient ==
    [][\A i \in Ops :
           (opPc[i] = "ec2" /\ opPc'[i] = "io2")
               => /\ \E k \in 1..Len(ioLog) :
                         ioLog[k].op = i /\ ioLog[k].client # clientId'
                  /\ clientLoggedIn'
                  /\ clientPin' = "fetched"]_vars

\* C14: callbacks are called in submission order: an operation has its
\* response only if every operation submitted before it has one, also when
\* the responses are timeouts or shutdown rejections.
C14_ResponsesInOrder ==
    \A i, j \in Ops :
        (i < j /\ responses[j] # <<>>) => responses[i] # <<>>

\* Operation 1 timed out during its login, shutdown() was called, and
\* operation 2 was rejected by the queue when operation 1 ended.
C14_Witness ==
    /\ responses[1] = <<TimeoutErr>>
    /\ responses[2] = <<ShutdownErr>>
    /\ timer[2] = "cleared"

\* C15: after shutdown() the periodic timer is cancelled and no periodic run
\* starts; only a run whose fetch was already in flight when shutdown() was
\* called still ends, storing the token it fetched.
C15_PeriodicCancelled ==
    /\ [](shutdownRequested => ~tokenUpdateInterval)
    /\ [][(shutdownRequested /\ ppc = "idle") => ppc' = "idle"]_vars

\* shutdown() was called on an accessory whose periodic run had fetched a
\* token, and no run is in progress.
C15_Witness ==
    /\ shutdownRequested /\ useTelnetForToken /\ ~tokenUpdateInterval
    /\ nOps = 0 /\ clientPin = "fetched" /\ ppc = "idle"

\* C15 as stated: after shutdown() no step of a periodic run changes the
\* credential.
C15_NoPeriodicChange ==
    [][(shutdownRequested /\ ppc' # ppc)
           => (ppc' # "telnet" /\ clientPin' = clientPin)]_vars

\* C16: after shutdown() the current client is closed and stays the current
\* client, and no out-of-band fetch and no login() call is started.
C16_StaysReleased ==
    /\ [](shutdownRequested => clientClosed)
    /\ [][shutdownRequested
             => /\ clientId' = clientId
                /\ ~FetchStarted
                /\ ~LoginCallStarted]_vars

\* C17: every backoff delay the login loop waits is at most 30000 ms.
C17_DelayCapped ==
    /\ lpc = "backoff" => delay <= BackoffCapMs
    /\ \A k \in 1..Len(Waits(seqLog)) : Waits(seqLog)[k].ms <= BackoffCapMs

\* C18: when the fetch that follows a credential-class login failure returns
\* a token, login() is called again at once and no attempt is consumed, also
\* when the failure was on attempt number maxRetries.
C18_RecoveryKeepsAttempt ==
    [][(/\ lpc = "telnet" /\ ~shutdownRequested
        /\ Len(seqLog') > Len(seqLog)
        /\ seqLog'[Len(seqLog) + 1] = Ev("fetch", "token", 0))
           => (lpc' = "login" /\ attempt' = attempt)]_vars

\* C19: a login loop that ends without a successful login and without a
\* shutdown ends with the terminal error of the exhausted retries,
\* loginPromise is null and _handleCriticalFailure was called with that error.
C19_TerminalSessionError ==
    (/\ Ended(seqLog) /\ ~shutdownRequested
     /\ seqLog[Len(seqLog)].what # "ok")
        => /\ seqLog[Len(seqLog)].what = "Session"
           /\ loginPromise = "null"
           /\ \E k \in 1..Len(policyLog) : policyLog[k].kind = "Session"

\* C20: once shutdown() was called a running login loop starts no further
\* login() call, and when it ends it ends with the abort error and
\* _handleCriticalFailure is not called.
C20_ShutdownAborts ==
    [][(shutdownRequested /\ lpc # "idle")
           => /\ ~LoginCallStarted
              /\ lpc' = "idle" =>
                     /\ Ended(seqLog')
                     /\ seqLog'[Len(seqLog')].what = "Aborted"
                     /\ policyLog' = policyLog]_vars

\* Calls of _handleCriticalFailure with an error of kind k.
PolicyCalls(log, k) == Len(SelectSeq(log, LAMBDA e : e.kind = k))

\* Transport calls in flight, by kind.
LoginsInFlight == IF lpc = "login" THEN 1 ELSE 0
IoInFlight == Cardinality({i \in Ops : opPc[i] \in {"io1", "io2"}})
FetchesInFlight ==
    (IF lpc = "telnet" THEN 1 ELSE 0) + (IF ppc = "telnet" THEN 1 ELSE 0)
        + Cardinality({i \in Ops : opPc[i] = "rtelnet"})

\* C21: when the fetch of refreshTokenAndReconnect() returns no token or
\* rejects, the refresh fails with that error, _handleCriticalFailure is
\* called with it, the flag is cleared, and the operation delivers the error
\* unless it was answered already.
C21_RefreshErrorEscalates ==
    [][\A i \in Ops :
           (opPc[i] = "rtelnet" /\ opPc'[i] = "done" /\ clientId' = clientId)
               => /\ Len(policyLog') > Len(policyLog)
                  /\ policyLog'[Len(policyLog) + 1] \in {NoTokenErr, TelnetErr}
                  /\ ~tokenUpdateInProgress'
                  /\ ~responded[i] =>
                         responses'[i] = <<policyLog'[Len(policyLog) + 1]>>
      ]_vars

\* The fetch of operation 1's refresh returned no token.
C21_Witness ==
    /\ opPc[1] = "done" /\ responses[1] = <<NoTokenErr>>
    /\ policyLog = <<NoTokenErr>> /\ ~tokenUpdateInProgress

\* C22: a tick of the periodic timer while tokenUpdateInProgress is set
\* starts no fetch and leaves the whole state as it is; nothing records the
\* tick for later.
C22_PeriodicSkipped ==
    (tokenUpdateInProgress /\ tokenUpdateInterval)
        => PeriodicTokenUpdate(State) = State

\* The timer can tick while an operation's refresh is fetching a token.
C22_Witness ==
    /\ tokenUpdateInProgress /\ tokenUpdateInterval /\ ~shutdownRequested
    /\ \E i \in Ops : opPc[i] = "rtelnet"
    /\ ppc = "idle"

\* C23: whenever the pin held by this.client changes, this.client is a new
\* object.
C23_ReplacedOnChange ==
    [][clientPin' # clientPin => clientId' # clientId]_vars

\* C24: at most one call of login(), state()/switch() or getTokenFromTelnet()
\* is in flight.
C24_OneTransportCall ==
    LoginsInFlight + IoInFlight + FetchesInFlight <= 1

\* C25: at most one getTokenFromTelnet() call is in flight, and only while
\* tokenUpdateInProgress is set.
C25_OneFetchUnderFlag ==
    /\ FetchesInFlight <= 1
    /\ FetchesInFlight > 0 => tokenUpdateInProgress

\* C26: when an operation's first state()/switch() call rejects with a token
\* error and useTelnetForToken is set, the refresh is started (it waits or
\* fetches), whether or not the operation has timed out.
C26_RefreshAndRetryOnce ==
    \A i \in Ops :
        (opPc[i] = "io1" /\ useTelnetForToken)
            => IoSettled(State, i, CredMsgErr).opPc[i] \in {"rwait", "rtelnet"}

\* C27: a login loop makes at most one token fetch.
C27_OneFetchPerLogin == Len(Fetches(seqLog)) <= 1

\* An operation that had no answer delivers a network error from its
\* state()/switch() call in this step.
DeliversNetErr(i) ==
    /\ opPc[i] \in {"io1", "io2"}
    /\ responses[i] = <<>> /\ responses'[i] = <<NetErr>>

\* C28: in the step in which an operation that had no answer delivers the
\* network error of its state()/switch() call, _handleCriticalFailure is called
\* with that error when forceRestartOnFailure is set, and is not called with it
\* when the flag is unset.
C28_IffForce ==
    [][\A i \in Ops :
           DeliversNetErr(i)
               => PolicyCalls(policyLog', "Network") =
                      PolicyCalls(policyLog, "Network")
                          + (IF forceRestartOnFailure THEN 1 ELSE 0)]_vars

\* C29: the terminal error of one login loop reaches _handleCriticalFailure at
\* most once: a step adds at most one call with a terminal login error.
C29_PolicyOncePerFailure ==
    [][PolicyCalls(policyLog', "Session")
           <= PolicyCalls(policyLog, "Session") + 1]_vars

\* C30: the step in which an operation's timer fires delivers the timeout
\* error to that operation and changes nothing else: client, credential,
\* loginPromise, login loop, refresh flag, queue and pending calls stay.
C30_TimeoutFrame ==
    [][\A i \in Ops :
           (timer[i] = "armed" /\ timer'[i] = "fired")
               => /\ responses' = [responses EXCEPT ![i] = <<TimeoutErr>>]
                  /\ UNCHANGED <<clientId, clientPin, clientLoggedIn,
                                 clientClosed, shutdownRequested, loginPromise,
                                 tokenUpdateInProgress, tokenUpdateInterval,
                                 lpc, attempt, delay, lastErr, loginClient,
                                 activeLogins, loginSeqs, loginWaiters, ppc, nOps,
                                 opPc,
                                 opPred, opSettled, opQueueTail, ioLog,
                                 policyLog, exits>>
      ]_vars

\* Operation 1 timed out and its state()/switch() call is still pending, with
\* operation 2 still armed behind it.
C30_Witness ==
    /\ timer[1] = "fired" /\ opPc[1] = "io1"
    /\ opPc[2] = "queued" /\ timer[2] = "armed"

\* What an operation does apart from the value it hands to HomeKit: transport
\* calls, refreshes, policy invocations and the state it leaves behind.
Internal(s) ==
    [ioLog |-> s.ioLog, policyLog |-> s.policyLog, exits |-> s.exits,
     opPc |-> s.opPc, clientId |-> s.clientId, clientPin |-> s.clientPin,
     clientLoggedIn |-> s.clientLoggedIn,
     tokenUpdateInProgress |-> s.tokenUpdateInProgress,
     loginPromise |-> s.loginPromise, lpc |-> s.lpc,
     loginSeqs |-> s.loginSeqs]

\* C31: whether the deadline of an operation has fired does not change what
\* the operation does internally: from the same state and with the same
\* outcome of its state()/switch() call, the run whose timer fired first makes
\* the same transport calls, refreshes and policy invocations and ends in the
\* same state as the run whose timer did not fire.
C31_DeadlineIndependent ==
    \A i \in Ops : \A r \in IoErrors \cup {NoErr} :
        (opPc[i] = "io1" /\ TimerDue(i))
            => Internal(IoSettled(OperationTimeout(State, i), i, r))
                   = Internal(IoSettled(State, i, r))

\* C32: with useTelnetForToken false the periodic timer is never started, no
\* getTokenFromTelnet() call is ever pending or made on any path (periodic
\* callback, login loop, on-demand refresh), and the client object and its
\* credential stay the ones built by the constructor.
C32_FixedModeNoRefresh ==
    ~useTelnetForToken
        => /\ ~tokenUpdateInterval
           /\ FetchesInFlight = 0
           /\ ~tokenUpdateInProgress
           /\ Fetches(seqLog) = <<>>
           /\ clientId = 1
           /\ clientPin = "configured"

\* Fixed mode, and both paths that would fetch a credential have been taken:
\* the login loop saw a credential error, and state()/switch() of operation 1
\* failed with one, which sent the body into refreshTokenAndReconnect().
C32_Witness ==
    /\ ~useTelnetForToken
    /\ responses[1] = <<NotTelnetErr>>
    /\ opPc[2] = "ec1" /\ lpc = "backoff" /\ IsTokenError(lastErr)

\* C33: loginPromise is non-null exactly while a login sequence is running;
\* once the sequence has settled it is null, for every configured maxRetries
\* including 0.
C33_PromiseNullWhenSettled ==
    (loginPromise # "null") <=> (lpc # "idle")

\* C34: one login sequence makes at most maxRetries login() calls, and when
\* every transport call and backoff wait completes the sequence terminates,
\* also when every attempt fails with a credential error followed by a
\* successful credential fetch.
C34_LoginSequenceBounded ==
    /\ [](attempt <= maxRetries /\ Len(Logins(seqLog)) <= maxRetries)
    /\ \A n \in 1..(2 * MaxOps) :
           (loginSeqs = n /\ lpc # "idle")
               ~> (loginSeqs > n \/ lpc = "idle")

\* A sequence of maxRetries = 2 attempts has just ended in which each login()
\* failed with a credential error and each fetch that followed succeeded.
C34_Witness ==
    /\ maxRetries = 2 /\ Ended(seqLog)
    /\ Len(Logins(seqLog)) = 2 /\ Len(Fetches(seqLog)) = 2
    /\ \A k \in 1..2 : /\ Logins(seqLog)[k].what = "Credential"
                       /\ Fetches(seqLog)[k].what = "token"

\* C35: an operation whose timer fired while it waited in the queue is not
\* removed: when its turn comes (no shutdown, maxRetries >= 1) its body runs
\* and starts a login sequence; when that login succeeds its state()/switch()
\* call is sent on the client; and no later operation starts before it has
\* settled.
C35_TimedOutStillRuns ==
    /\ [][\A i \in Ops :
              (/\ opPc[i] = "queued" /\ timer[i] = "fired"
               /\ opPc'[i] # "queued"
               /\ ~shutdownRequested /\ maxRetries >= 1)
                  => /\ opPc'[i] = "ec1"
                     /\ loginSeqs' = loginSeqs + 1]_vars
    /\ [][\A i \in Ops :
              (/\ opPc[i] = "ec1" /\ timer[i] = "fired"
               /\ lpc = "login" /\ Ended(seqLog')
               /\ seqLog'[Len(seqLog')] = Ev("end", "ok", 0))
                  => /\ opPc'[i] = "io1"
                     /\ ioLog' = Append(ioLog, [op |-> i, client |-> clientId,
                                                loggedIn |-> TRUE])]_vars
    /\ [](\A i, j \in Ops :
              (i < j /\ timer[i] = "fired" /\ ~Settled(i))
                  => opPc[j] \in {"new", "queued"})

\* Both operations timed out, the first one has settled, and the second,
\* whose timer fired after the first one's, has its state()/switch() call
\* pending on the client.
C35_Witness ==
    /\ responses[1] = <<TimeoutErr>> /\ responses[2] = <<TimeoutErr>>
    /\ opPc[1] = "done" /\ opPc[2] = "io1"
    /\ \E k \in 1..Len(ioLog) : ioLog[k].op = 2

\* C36: after a terminal login failure that scheduled no exit the instance
\* stays usable: an operation submitted to the idle queue starts a new login
\* sequence at once, with the attempt counter and the backoff delay reset, and
\* when that login and the state()/switch() call succeed the operation
\* delivers the success.
C36_UsableAfterFailure ==
    /\ [][(/\ PolicyCalls(policyLog, "Session") >= 1 /\ exits = <<>>
           /\ ~shutdownRequested /\ nOps >= 1 /\ Settled(nOps)
           /\ nOps' = nOps + 1)
              => /\ opPc'[nOps'] = "ec1"
                 /\ loginSeqs' = loginSeqs + 1
                 /\ loginPromise' = "pending" /\ lpc' = "login"
                 /\ attempt' = 1 /\ delay' = initialRetryDelayMs
                 /\ seqLog' = <<>>]_vars
    /\ [](\A i \in Ops :
              (PolicyCalls(policyLog, "Session") >= 1 /\ exits = <<>>)
                  => /\ (opPc[i] = "ec1" /\ lpc = "login")
                         => LoginSettled(State, NoErr).opPc[i] = "io1"
                     /\ (opPc[i] = "io1" /\ ~responded[i])
                         => IoSettled(State, i, NoErr).responses[i]
                                = <<OkRes>>)

\* Operation 1 delivered the terminal login error, no exit was scheduled, and
\* operation 2, submitted afterwards, delivered a success.
C36_Witness ==
    /\ responses[1] = <<SessionErr(NetErr)>> /\ exits = <<>>
    /\ policyLog = <<SessionErr(NetErr)>>
    /\ responses[2] = <<OkRes>>

\* C37: every state()/switch() call is issued on the client object that is
\* current at the time of the call, and only after a login() has succeeded on
\* that same object since it was created; while the call is pending the
\* object stays the current one.
C37_IoOnLoggedInClient ==
    /\ \A k \in 1..Len(ioLog) :
           /\ ioLog[k].loggedIn
           /\ ioLog[k].client <= clientId
           /\ \A l \in 1..Len(ioLog) :
                  k <= l => ioLog[k].client <= ioLog[l].client
    /\ \A i \in Ops :
           opPc[i] \in {"io1", "io2"}
               => /\ ioLog # <<>>
                  /\ ioLog[Len(ioLog)] = [op |-> i, client |-> clientId,
                                          loggedIn |-> TRUE]
                  /\ clientLoggedIn

\* The retry of operation 1 is pending on the client built by the refresh,
\* after the first call was made on the constructor's client.
C37_Witness ==
    /\ opPc[1] = "io2" /\ clientId = 2
    /\ ioLog = <<[op |-> 1, client |-> 1, loggedIn |-> TRUE],
                 [op |-> 1, client |-> 2, loggedIn |-> TRUE]>>

\* C38: tokenUpdateInProgress is set exactly while a periodic run or an
\* on-demand refresh holds it (between its fetch and the end of its
\* reconnect), so every exit path clears it; and when every transport call
\* settles and every timer fires, an on-demand refresh that found the flag
\* set proceeds, and every refresh ends with its operation settled.
C38_FlagReleased ==
    /\ [](tokenUpdateInProgress
              <=> (ppc = "telnet" \/ \E i \in Ops : opPc[i] \in {"rtelnet", "ec2"}))
    /\ [](Cardinality({i \in Ops : opPc[i] \in {"rtelnet", "ec2"}})
              + (IF ppc = "telnet" THEN 1 ELSE 0) <= 1)
    /\ \A i \in Ops :
           /\ (opPc[i] = "rwait") ~> (opPc[i] # "rwait")
           /\ (opPc[i] \in {"rwait", "rtelnet", "ec2"}) ~> Settled(i)

\* C39: with useTelnetForToken false, an operation whose state()/switch()
\* call fails with a credential error before its timer has fired delivers
\* that same error to its callback.
C39_CredentialErrorDelivered ==
    \A i \in Ops :
        (~useTelnetForToken /\ opPc[i] = "io1" /\ ~responded[i])
            => IoSettled(State, i, CredMsgErr).responses[i] = <<CredMsgErr>>

====
